---- MODULE Spec2Model ----
(***************************************************************************)
(* Model of freetype-harbuzz-icu.cpp: the ICU transcoding and reordering   *)
(* of the text, its shaping, the metrics pass that computes the bounding   *)
(* box, the render pass that composites every glyph with DrawGlyph, and    *)
(* the PGM output.  Integers are those of an LP64 build: int and FT_Int    *)
(* are 32 bits wide, FT_Pos (long) is 64 bits wide.                        *)
(***************************************************************************)
EXTENDS Integers, Sequences, FiniteSets, TLC

\* ------------------------------------------------------------------ bounds
\* Canvas widths and heights of the DrawGlyph specification: 0..MaxDim.
MaxDim == 3
\* Near destination offsets of the DrawGlyph specification: -MaxOff..MaxOff.
MaxOff == 1
\* Longest text, in code points, of the pipeline specification.
MaxText == 3

\* --------------------------------------------------------------- integers
INT_MAX == 2147483647
INT_MIN == -INT_MAX - 1
SubpixelScale == 64

\* (a - b) / 64 of C on 64-bit FT_Pos operands that each fit an int: the
\* difference, which may need more than 32 bits, is formed from the
\* operands' quotients and remainders.
SubDivScale(a, b) ==
  LET hi == (a \div SubpixelScale) - (b \div SubpixelScale)
      lo == (a % SubpixelScale) - (b % SubpixelScale)
  IN  IF hi > 0 \/ (hi = 0 /\ lo >= 0)
        THEN IF lo < 0 THEN hi - 1 ELSE hi
        ELSE IF lo > 0 THEN hi + 1 ELSE hi

\* x + u of C for an int x and an unsigned int u < 2^31, converted back to
\* FT_Int: the sum wraps modulo 2^32.
AddWrap(x, u) ==
  IF x > INT_MAX - u THEN ((x - INT_MAX) + (u - INT_MAX)) - 2 ELSE x + u

\* (x * y) mod 2^16 for 0 <= x, y < 2^16.
MulMod16(x, y) ==
  (((x % 256) * y) + ((((x \div 256) * y) % 256) * 256)) % 65536

\* a * b of C on two ints, wrapped to 32 bits (two's complement), computed
\* on 16-bit limbs.
MulInt32(a, b) ==
  LET a0 == a % 65536
      a1 == (a \div 65536) % 65536
      b0 == b % 65536
      b1 == (b \div 65536) % 65536
      p0 == (a0 % 256) * b0
      p1 == (a0 \div 256) * b0
      lo == (p0 % 65536) + ((p1 % 256) * 256)
      hi == ((p0 \div 65536) + (p1 \div 256) + (lo \div 65536)
             + MulMod16(a1, b0) + MulMod16(a0, b1)) % 65536
  IN  (IF hi >= 32768 THEN hi - 65536 ELSE hi) * 65536 + (lo % 65536)

RECURSIVE BitOr(_, _)
\* a | b on unsigned char values.
BitOr(a, b) ==
  IF a = 0 THEN b
  ELSE IF b = 0 THEN a
  ELSE (IF a % 2 = 1 \/ b % 2 = 1 THEN 1 ELSE 0) + 2 * BitOr(a \div 2, b \div 2)

\* -------------------------------------------------------------- DrawGlyph
\* An image is a function from 0..n-1 to unsigned char values.  A bitmap is
\* [width, rows, buffer], buffer a sequence read at index q * width + p.

\* Mutant of InCanvas: the test against the right edge is missing.
InCanvasNoRightEdge(i, j, width, height) == ~(i < 0 \/ j < 0 \/ j >= height)

\* The clipping test of DrawGlyph: TRUE when (i, j) is a cell of the canvas.
InCanvas(i, j, width, height) == ~(i < 0 \/ j < 0 \/ i >= width \/ j >= height)

\* Mutant of Blend: += in place of |=.
BlendAdd(dst, src) == (dst + src) % 256

\* Mutant of Blend: = in place of |=.
BlendAssign(dst, src) == src

\* The right-hand side of image[...] |= buffer[...].
Blend(dst, src) == BitOr(dst, src)

\* The k-th iteration (k from 0) of the nested loops: i, p outer, j, q inner.
LoopCell(k, ny, x, y) ==
  [i |-> x + (k \div ny), p |-> k \div ny, j |-> y + (k % ny), q |-> k % ny]

\* Mutant of StoreCell: the right edge is not tested and the cell is
\* assigned, so a row's overhang lands in the next row and replaces it.
StoreCellAssignUnclipped(st, width, height, c, src) ==
  IF c.i < 0 \/ c.j < 0 \/ c.j >= height THEN st
  ELSE LET idx == c.j * width + c.i
       IN  [image |-> IF idx \in DOMAIN st.image
                        THEN [st.image EXCEPT ![idx] = src]
                        ELSE st.image,
            writes |-> st.writes \cup {idx}]

\* The loop body on st = [image, writes] at loop cell c with source value
\* src: writes collects every index stored to.  A store outside the image
\* is recorded and changes no cell.
StoreCell(st, width, height, c, src) ==
  IF ~InCanvas(c.i, c.j, width, height) THEN st
  ELSE LET idx == c.j * width + c.i
       IN  [image |-> IF idx \in DOMAIN st.image
                        THEN [st.image EXCEPT ![idx] = Blend(@, src)]
                        ELSE st.image,
            writes |-> st.writes \cup {idx}]

RECURSIVE DrawFrom(_, _, _, _, _, _, _, _, _)
\* The iterations k..n-1 of DrawGlyph's loops.
DrawFrom(st, k, n, ny, width, height, bm, x, y) ==
  IF k >= n THEN st
  ELSE LET c == LoopCell(k, ny, x, y)
           src == bm.buffer[c.q * bm.width + c.p + 1]
       IN  DrawFrom(StoreCell(st, width, height, c, src), k + 1, n, ny,
                    width, height, bm, x, y)

\* DrawGlyph(image, width, height, glyphBitmap, x, y): [image, writes].
DrawGlyph(image, width, height, bm, x, y) ==
  LET xMax == AddWrap(x, bm.width)
      yMax == AddWrap(y, bm.rows)
      nx == IF xMax > x THEN xMax - x ELSE 0
      ny == IF yMax > y THEN yMax - y ELSE 0
  IN  DrawFrom([image |-> image, writes |-> {}], 0, nx * ny, ny,
               width, height, bm, x, y)

\* ------------------------------------------------------------ transcoding
\* The code points texts are made of: one per UTF-8 length and bidi class.
\* 'A' (L, 1 byte), space (WS, 1 byte), ALEF (AL, 2 bytes), FATHATAN (NSM,
\* 2 bytes), FULL BLOCK (ON, 3 bytes), an emoji (ON, 4 bytes, two UChars).
CodePoints == {65, 32, 1575, 1611, 9608, 128512}
ReplacementCp == 65533

\* The UTF-8 bytes of a code point, as the u8 literal holds them.
Utf8Of(cp) ==
  IF cp < 128 THEN <<cp>>
  ELSE IF cp < 2048 THEN <<192 + (cp \div 64), 128 + (cp % 64)>>
  ELSE IF cp < 65536
    THEN <<224 + (cp \div 4096), 128 + ((cp \div 64) % 64), 128 + (cp % 64)>>
  ELSE <<240 + (cp \div 262144), 128 + ((cp \div 4096) % 64),
         128 + ((cp \div 64) % 64), 128 + (cp % 64)>>

\* The UTF-16 code units of a code point.
Utf16Of(cp) ==
  IF cp < 65536 THEN <<cp>>
  ELSE <<55296 + ((cp - 65536) \div 1024), 56320 + ((cp - 65536) % 1024)>>

RECURSIVE Utf8Encode(_)
Utf8Encode(cps) ==
  IF cps = <<>> THEN <<>> ELSE Utf8Of(Head(cps)) \o Utf8Encode(Tail(cps))

RECURSIVE Utf16Encode(_)
Utf16Encode(cps) ==
  IF cps = <<>> THEN <<>> ELSE Utf16Of(Head(cps)) \o Utf16Encode(Tail(cps))

IsCont(bytes, i) == i <= Len(bytes) /\ bytes[i] >= 128 /\ bytes[i] <= 191

\* One decoding step at the head of a byte sequence: [cp, len].  An invalid
\* or cut sequence yields the replacement code point and consumes one byte.
Utf8Next(bytes) ==
  LET c == bytes[1]
      bad == [cp |-> ReplacementCp, len |-> 1]
  IN  IF c <= 127 THEN [cp |-> c, len |-> 1]
      ELSE IF c >= 194 /\ c <= 223
        THEN IF IsCont(bytes, 2)
               THEN [cp |-> (c % 32) * 64 + (bytes[2] % 64), len |-> 2]
               ELSE bad
      ELSE IF c >= 224 /\ c <= 239
        THEN IF IsCont(bytes, 2) /\ IsCont(bytes, 3)
               THEN LET v == (c % 16) * 4096 + (bytes[2] % 64) * 64 + (bytes[3] % 64)
                    IN  IF v < 2048 \/ (v >= 55296 /\ v <= 57343)
                          THEN bad ELSE [cp |-> v, len |-> 3]
               ELSE bad
      ELSE IF c >= 240 /\ c <= 244
        THEN IF IsCont(bytes, 2) /\ IsCont(bytes, 3) /\ IsCont(bytes, 4)
               THEN LET v == (c % 8) * 262144 + (bytes[2] % 64) * 4096
                             + (bytes[3] % 64) * 64 + (bytes[4] % 64)
                    IN  IF v < 65536 \/ v > 1114111
                          THEN bad ELSE [cp |-> v, len |-> 4]
               ELSE bad
      ELSE bad

RECURSIVE Utf8Decode(_)
Utf8Decode(bytes) ==
  IF bytes = <<>> THEN <<>>
  ELSE LET n == Utf8Next(bytes)
       IN  <<n.cp>> \o Utf8Decode(SubSeq(bytes, n.len + 1, Len(bytes)))

RECURSIVE Utf16Decode(_)
Utf16Decode(units) ==
  IF units = <<>> THEN <<>>
  ELSE IF Len(units) >= 2 /\ units[1] >= 55296 /\ units[1] <= 56319
          /\ units[2] >= 56320 /\ units[2] <= 57343
    THEN <<65536 + (units[1] - 55296) * 1024 + (units[2] - 56320)>>
         \o Utf16Decode(SubSeq(units, 3, Len(units)))
  ELSE <<units[1]>> \o Utf16Decode(Tail(units))

Zeros(n) == [k \in 1..n |-> 0]
Take(s, n) == SubSeq(s, 1, IF n < Len(s) THEN n ELSE Len(s))

\* UErrorCode: failures stop every later ICU call, warnings do not.
U_FAILURE(e) == e \in {"U_MEMORY_ALLOCATION_ERROR", "U_BUFFER_OVERFLOW_ERROR"}

\* What an ICU call leaves in *pErrorCode when it produced `required` units
\* for a destination of `capacity` units.
StatusAfter(e, required, capacity) ==
  IF required > capacity THEN "U_BUFFER_OVERFLOW_ERROR"
  ELSE IF required = capacity THEN "U_STRING_NOT_TERMINATED_WARNING"
  ELSE e

\* ucnv_toUChars(converter, dest, capacity, src, -1, &error):
\* [out, length, error, required].
ToUChars(src, capacity, e) ==
  IF U_FAILURE(e)
    THEN [out |-> <<>>, length |-> 0, error |-> e, required |-> 0]
    ELSE LET units == Utf16Encode(Utf8Decode(src))
         IN  [out |-> Take(units, capacity), length |-> Len(units),
              error |-> StatusAfter(e, Len(units), capacity),
              required |-> Len(units)]

\* ucnv_fromUChars(converter, dest, capacity, src, srcLength, &error).
FromUChars(src, capacity, e) ==
  IF U_FAILURE(e)
    THEN [out |-> <<>>, length |-> 0, error |-> e, required |-> 0]
    ELSE LET bytes == Utf8Encode(Utf16Decode(src))
         IN  [out |-> Take(bytes, capacity), length |-> Len(bytes),
              error |-> StatusAfter(e, Len(bytes), capacity),
              required |-> Len(bytes)]

\* ------------------------------------------------------------- reordering
HB_DIRECTION_LTR == 4

BidiClass(cp) ==
  IF cp = 65 THEN "L"
  ELSE IF cp = 1575 THEN "AL"
  ELSE IF cp = 1611 THEN "NSM"
  ELSE IF cp = 32 THEN "WS"
  ELSE "ON"

RECURSIVE WeakType(_, _, _)
\* The type of cps[i] after the weak rules: a nonspacing mark takes the type
\* of the character before it (the paragraph's at the start), AL becomes R.
WeakType(cps, i, base) ==
  LET c == BidiClass(cps[i])
  IN  IF c = "NSM" THEN (IF i = 1 THEN base ELSE WeakType(cps, i - 1, base))
      ELSE IF c = "AL" THEN "R"
      ELSE IF c = "L" THEN "L"
      ELSE "N"

RECURSIVE StrongBefore(_, _, _)
StrongBefore(cps, i, base) ==
  IF i < 1 THEN base
  ELSE IF WeakType(cps, i, base) # "N" THEN WeakType(cps, i, base)
  ELSE StrongBefore(cps, i - 1, base)

RECURSIVE StrongAfter(_, _, _)
StrongAfter(cps, i, base) ==
  IF i > Len(cps) THEN base
  ELSE IF WeakType(cps, i, base) # "N" THEN WeakType(cps, i, base)
  ELSE StrongAfter(cps, i + 1, base)

\* TRUE when cps[i] resolves to an odd level: a neutral between two
\* right-to-left characters follows them, any other follows the paragraph.
IsRtl(cps, i, base) ==
  StrongBefore(cps, i, base) = "R" /\ StrongAfter(cps, i, base) = "R"

RECURSIVE RunStart(_, _, _)
RunStart(cps, i, base) ==
  IF i > 1 /\ IsRtl(cps, i - 1, base) THEN RunStart(cps, i - 1, base) ELSE i

RECURSIVE RunEnd(_, _, _)
RunEnd(cps, i, base) ==
  IF i < Len(cps) /\ IsRtl(cps, i + 1, base) THEN RunEnd(cps, i + 1, base) ELSE i

\* The visual order of a paragraph: every right-to-left run reversed.
VisualOrder(cps, paraLevel) ==
  LET base == IF paraLevel % 2 = 0 THEN "L" ELSE "R"
  IN  [i \in 1..Len(cps) |->
         IF IsRtl(cps, i, base)
           THEN cps[RunStart(cps, i, base) + RunEnd(cps, i, base) - i]
           ELSE cps[i]]

\* ubidi_setPara + ubidi_writeReordered(bidi, dest, capacity,
\* UBIDI_DO_MIRRORING, &error): surrogate pairs stay together.
WriteReordered(src, capacity, paraLevel, e) ==
  IF U_FAILURE(e)
    THEN [out |-> <<>>, length |-> 0, error |-> e, required |-> 0]
    ELSE LET units == Utf16Encode(VisualOrder(Utf16Decode(src), paraLevel))
         IN  [out |-> Take(units, capacity), length |-> Len(units),
              error |-> StatusAfter(e, Len(units), capacity),
              required |-> Len(units)]

\* ---------------------------------------------------- shaping, rasterizer
\* The face: per glyph index the outline's control box and the advance, in
\* 26.6 units relative to the glyph origin, and two coverage values.  Glyph
\* 0 is .notdef, 4 has no outline (a space), 5 is a mark drawn to the left
\* of the pen with no advance.
Face ==
  [g \in 0..5 |->
     CASE g = 0 -> [empty |-> FALSE, xMin |-> 0, yMin |-> 0, xMax |-> 64,
                    yMax |-> 128, adv |-> 96, ink |-> <<255, 129>>]
       [] g = 1 -> [empty |-> FALSE, xMin |-> 0, yMin |-> 0, xMax |-> 100,
                    yMax |-> 128, adv |-> 128, ink |-> <<3, 12>>]
       [] g = 2 -> [empty |-> FALSE, xMin |-> 8, yMin |-> -40, xMax |-> 60,
                    yMax |-> 100, adv |-> 64, ink |-> <<48, 0>>]
       [] g = 3 -> [empty |-> FALSE, xMin |-> 0, yMin |-> -64, xMax |-> 128,
                    yMax |-> 128, adv |-> 128, ink |-> <<170, 85>>]
       [] g = 4 -> [empty |-> TRUE, xMin |-> 0, yMin |-> 0, xMax |-> 0,
                    yMax |-> 0, adv |-> 64, ink |-> <<0, 0>>]
       [] g = 5 -> [empty |-> FALSE, xMin |-> -70, yMin |-> 100, xMax |-> -10,
                    yMax |-> 180, adv |-> 0, ink |-> <<64, 192>>]]

\* The face's character map; a code point it lacks maps to .notdef.
Cmap(cp) ==
  IF cp = 65 THEN 1
  ELSE IF cp = 1575 THEN 2
  ELSE IF cp = 9608 THEN 3
  ELSE IF cp = 32 THEN 4
  ELSE IF cp = 1611 THEN 5
  ELSE 0

\* hb_buffer_add_utf8 + hb_shape + the copy of the glyph infos' codepoints:
\* one glyph per decoded code point, in buffer order.
Shape(bytes) ==
  LET cps == Utf8Decode(bytes) IN [k \in 1..Len(cps) |-> Cmap(cps[k])]

FloorPix(v) == v \div SubpixelScale
CeilPix(v) == -((-v) \div SubpixelScale)

\* FT_Set_Transform(face, NULL, &translation) + FT_Load_Glyph(face, g,
\* FT_LOAD_RENDER): the glyph slot.  The outline is translated and rendered
\* into the pixel box that contains it; the metrics stay those of the
\* untranslated outline; the advance is horizontal.
LoadGlyph(g, t) ==
  LET o == Face[g]
      left == IF o.empty THEN 0 ELSE FloorPix(o.xMin + t.x)
      right == IF o.empty THEN 0 ELSE CeilPix(o.xMax + t.x)
      bottom == IF o.empty THEN 0 ELSE FloorPix(o.yMin + t.y)
      top == IF o.empty THEN 0 ELSE CeilPix(o.yMax + t.y)
      w == right - left
  IN  [bitmap |-> [width |-> w, rows |-> top - bottom,
                   buffer |-> [k \in 1..(w * (top - bottom)) |->
                                 o.ink[((((k - 1) % w) + ((k - 1) \div w)) % 2) + 1]]],
       bitmap_left |-> left,
       bitmap_top |-> top,
       advance |-> [x |-> o.adv, y |-> 0],
       metrics |-> [height |-> o.yMax - o.yMin, horiBearingY |-> o.yMax]]

\* FT_Get_Glyph + FT_Glyph_Get_CBox(glyph, ft_glyph_bbox_subpixels, &box) on
\* a rendered slot: the bitmap's box in 26.6 units.
GlyphCBox(slot) ==
  [xMin |-> slot.bitmap_left * SubpixelScale,
   yMin |-> (slot.bitmap_top - slot.bitmap.rows) * SubpixelScale,
   xMax |-> (slot.bitmap_left + slot.bitmap.width) * SubpixelScale,
   yMax |-> slot.bitmap_top * SubpixelScale]

\* Mutant of UnionBBox: the upper bounds are updated with the minimum test.
UnionBBoxSwapped(bbox, glyphBbox) ==
  [xMin |-> IF glyphBbox.xMin < bbox.xMin THEN glyphBbox.xMin ELSE bbox.xMin,
   yMin |-> IF glyphBbox.yMin < bbox.yMin THEN glyphBbox.yMin ELSE bbox.yMin,
   xMax |-> IF glyphBbox.xMax < bbox.xMax THEN glyphBbox.xMax ELSE bbox.xMax,
   yMax |-> IF glyphBbox.yMax < bbox.yMax THEN glyphBbox.yMax ELSE bbox.yMax]

\* The four comparisons that widen bbox by glyphBbox.
UnionBBox(bbox, glyphBbox) ==
  [xMin |-> IF glyphBbox.xMin < bbox.xMin THEN glyphBbox.xMin ELSE bbox.xMin,
   yMin |-> IF glyphBbox.yMin < bbox.yMin THEN glyphBbox.yMin ELSE bbox.yMin,
   xMax |-> IF glyphBbox.xMax > bbox.xMax THEN glyphBbox.xMax ELSE bbox.xMax,
   yMax |-> IF glyphBbox.yMax > bbox.yMax THEN glyphBbox.yMax ELSE bbox.yMax]

\* Mutant of ShiftAfter: the extent above the origin in place of the one
\* below it.
ShiftAfterBearing(shift, slot) ==
  LET temp == slot.metrics.horiBearingY
  IN  IF temp > shift THEN temp ELSE shift

\* temp = metrics.height - metrics.horiBearingY; the running maximum.
ShiftAfter(shift, slot) ==
  LET temp == slot.metrics.height - slot.metrics.horiBearingY
  IN  IF temp > shift THEN temp ELSE shift

\* translation += glyphSlot->advance, in the metrics loop.
AdvanceMetrics(t, slot) == [x |-> t.x + slot.advance.x, y |-> t.y + slot.advance.y]

\* Mutant of AdvanceRender: the advance's components are exchanged.
AdvanceRenderSwapped(t, slot) == [x |-> t.x + slot.advance.y, y |-> t.y + slot.advance.x]

\* translation += glyphSlot->advance, in the render loop.
AdvanceRender(t, slot) == [x |-> t.x + slot.advance.x, y |-> t.y + slot.advance.y]

\* The pen the render pass starts from.
RenderStart(shift) == [x |-> 0, y |-> shift]

\* FT_Int width = (bbox.xMax - bbox.xMin) / 64, and height alike.
CanvasWidth(bbox) == SubDivScale(bbox.xMax, bbox.xMin)
CanvasHeight(bbox) == SubDivScale(bbox.yMax, bbox.yMin)

\* The destination DrawGlyph is given for a rendered slot.
DestX(slot) == slot.bitmap_left
DestY(slot, height) == height - slot.bitmap_top

\* ------------------------------------------------------------------ state
VARIABLES
  pc,                 \* the part of main that runs next
  str,                \* the UTF-8 bytes of the text literal
  error,              \* UErrorCode error
  calls,              \* per ICU call made: its destination capacity and need
  utf16str,           \* the UChars ucnv_toUChars wrote
  utf16strReordered,  \* the UChars ubidi_writeReordered wrote
  length,             \* size_t length
  utf8str,            \* std::vector<char> utf8str
  shaped,             \* TRUE once hb_shape ran
  glyphCodepoints,    \* std::vector<hb_codepoint_t> glyphCodepoints
  idx,                \* position of the running range-for loop
  translation,        \* FT_Vector translation
  bbox,               \* FT_BBox bbox
  aboveOriginShift,   \* int aboveOriginShift
  width, height,      \* FT_Int width, height
  image,              \* unsigned char *image
  metricsPens,        \* the translations the metrics pass set, in order
  renderPens,         \* the translations the render pass set, in order
  output,             \* what PrintPGM wrote
  dpc,                \* DrawGlyph specification: calls made so far
  dW, dH, dBase,      \* the canvas before any call
  dA, dB,             \* two placed bitmaps [bm, x, y]
  dImgA, dWritesA,    \* after DrawGlyph(A) on dBase, and the indices it stored to
  dImgAA,             \* after DrawGlyph(A) twice
  dImgAB, dImgBA      \* after A then B, after B then A

mainVars == <<pc, str, error, calls, utf16str, utf16strReordered, length,
              utf8str, shaped, glyphCodepoints, idx, translation, bbox,
              aboveOriginShift, width, height, image, metricsPens, renderPens,
              output>>
drawVars == <<dpc, dW, dH, dBase, dA, dB, dImgA, dWritesA, dImgAA, dImgAB, dImgBA>>
vars == <<mainVars, drawVars>>

NoBitmap == [width |-> 0, rows |-> 0, buffer |-> <<>>]
NoPlaced == [bm |-> NoBitmap, x |-> 0, y |-> 0]
NoImage == [k \in {} |-> 0]
ZeroVector == [x |-> 0, y |-> 0]
SentinelBBox == [xMin |-> INT_MAX, yMin |-> INT_MAX, xMax |-> INT_MIN, yMax |-> INT_MIN]
NoOutput == [printed |-> FALSE, width |-> 0, height |-> 0, rows |-> <<>>]

Texts == UNION {[1..n -> CodePoints] : n \in 0..MaxText}

MainIdle ==
  /\ pc = "idle" /\ str = <<>> /\ error = "U_ZERO_ERROR" /\ calls = <<>>
  /\ utf16str = <<>> /\ utf16strReordered = <<>> /\ length = 0
  /\ utf8str = <<>> /\ shaped = FALSE /\ glyphCodepoints = <<>> /\ idx = 1
  /\ translation = ZeroVector /\ bbox = SentinelBBox
  /\ aboveOriginShift = INT_MIN /\ width = 0 /\ height = 0
  /\ image = NoImage /\ metricsPens = <<>> /\ renderPens = <<>>
  /\ output = NoOutput

DrawIdle ==
  /\ dpc = "idle" /\ dW = 0 /\ dH = 0 /\ dBase = NoImage
  /\ dA = NoPlaced /\ dB = NoPlaced /\ dImgA = NoImage /\ dWritesA = {}
  /\ dImgAA = NoImage /\ dImgAB = NoImage /\ dImgBA = NoImage

\* ------------------------------------------------------------------- main
\* main is entered with the font loaded; the text literal is the input.
Init ==
  /\ pc = "toUtf16"
  /\ str \in {Utf8Encode(t) : t \in Texts}
  /\ error = "U_ZERO_ERROR" /\ calls = <<>>
  /\ utf16str = <<>> /\ utf16strReordered = <<>> /\ length = 0
  /\ utf8str = <<>> /\ shaped = FALSE /\ glyphCodepoints = <<>> /\ idx = 1
  /\ translation = ZeroVector /\ bbox = SentinelBBox
  /\ aboveOriginShift = INT_MIN /\ width = 0 /\ height = 0
  /\ image = NoImage /\ metricsPens = <<>> /\ renderPens = <<>>
  /\ output = NoOutput
  /\ DrawIdle

Call(name, capacity, r) ==
  [call |-> name, capacity |-> capacity, required |-> r.required, error |-> r.error]

\* ucnv_open, new UChar[str.length() + 1], ucnv_toUChars.
ConvertToUtf16 ==
  /\ pc = "toUtf16"
  /\ LET r == ToUChars(str, Len(str) + 1, error)
     IN  /\ utf16str' = r.out
         /\ length' = r.length
         /\ error' = r.error
         /\ calls' = Append(calls, Call("ucnv_toUChars", Len(str) + 1, r))
  /\ pc' = "reorder"
  /\ UNCHANGED <<str, utf16strReordered, utf8str, shaped, glyphCodepoints, idx,
                 translation, bbox, aboveOriginShift, width, height, image,
                 metricsPens, renderPens, output, drawVars>>

\* new UChar[length + 1], ubidi_openSized (which may fail to allocate),
\* ubidi_setPara, ubidi_writeReordered, ubidi_close.
Reorder ==
  /\ pc = "reorder"
  /\ \E opened \in BOOLEAN :
       LET e == IF U_FAILURE(error) \/ opened THEN error
                ELSE "U_MEMORY_ALLOCATION_ERROR"
           r == WriteReordered(Take(utf16str, length), length + 1,
                               HB_DIRECTION_LTR, e)
       IN  /\ utf16strReordered' = r.out
           /\ length' = r.length
           /\ error' = r.error
           /\ calls' = Append(calls, Call("ubidi_writeReordered", length + 1, r))
  /\ pc' = "toUtf8"
  /\ UNCHANGED <<str, utf16str, utf8str, shaped, glyphCodepoints, idx,
                 translation, bbox, aboveOriginShift, width, height, image,
                 metricsPens, renderPens, output, drawVars>>

\* std::vector<char> utf8str(length * 2), ucnv_fromUChars, resize(length),
\* the deletes and ucnv_close.
ConvertToUtf8 ==
  /\ pc = "toUtf8"
  /\ LET capacity == length * 2
         r == FromUChars(Take(utf16strReordered, length), capacity, error)
     IN  /\ utf8str' = r.out \o Zeros(r.length - Len(r.out))
         /\ length' = r.length
         /\ error' = r.error
         /\ calls' = Append(calls, Call("ucnv_fromUChars", capacity, r))
  /\ utf16str' = <<>>
  /\ utf16strReordered' = <<>>
  /\ pc' = "shape"
  /\ UNCHANGED <<str, shaped, glyphCodepoints, idx, translation, bbox,
                 aboveOriginShift, width, height, image, metricsPens,
                 renderPens, output, drawVars>>

\* The HarfBuzz section, then the initialisations before the metrics loop.
ShapeText ==
  /\ pc = "shape"
  /\ glyphCodepoints' = Shape(utf8str)
  /\ shaped' = TRUE
  /\ aboveOriginShift' = INT_MIN
  /\ translation' = ZeroVector
  /\ bbox' = SentinelBBox
  /\ idx' = 1
  /\ pc' = "metrics"
  /\ UNCHANGED <<str, error, calls, utf16str, utf16strReordered, length, utf8str,
                 width, height, image, metricsPens, renderPens, output, drawVars>>

\* One iteration of the metrics loop.
MetricsStep ==
  /\ pc = "metrics"
  /\ idx <= Len(glyphCodepoints)
  /\ LET slot == LoadGlyph(glyphCodepoints[idx], translation)
     IN  /\ metricsPens' = Append(metricsPens, translation)
         /\ translation' = AdvanceMetrics(translation, slot)
         /\ bbox' = UnionBBox(bbox, GlyphCBox(slot))
         /\ aboveOriginShift' = ShiftAfter(aboveOriginShift, slot)
  /\ idx' = idx + 1
  /\ UNCHANGED <<pc, str, error, calls, utf16str, utf16strReordered, length,
                 utf8str, shaped, glyphCodepoints, width, height, image,
                 renderPens, output, drawVars>>

\* The metrics loop ends; width and height are computed from bbox.
SizeCanvas ==
  /\ pc = "metrics"
  /\ idx > Len(glyphCodepoints)
  /\ width' = CanvasWidth(bbox)
  /\ height' = CanvasHeight(bbox)
  /\ pc' = "alloc"
  /\ UNCHANGED <<str, error, calls, utf16str, utf16strReordered, length, utf8str,
                 shaped, glyphCodepoints, idx, translation, bbox,
                 aboveOriginShift, image, metricsPens, renderPens, output,
                 drawVars>>

\* new unsigned char[width*height]() and the reset of the pen.
AllocateCanvas ==
  /\ pc = "alloc"
  /\ MulInt32(width, height) >= 0
  /\ image' = [k \in 0..(MulInt32(width, height) - 1) |-> 0]
  /\ translation' = RenderStart(aboveOriginShift)
  /\ idx' = 1
  /\ pc' = "render"
  /\ UNCHANGED <<str, error, calls, utf16str, utf16strReordered, length, utf8str,
                 shaped, glyphCodepoints, bbox, aboveOriginShift, width, height,
                 metricsPens, renderPens, output, drawVars>>

\* A negative element count: new[] throws, nothing catches it.
AllocationThrows ==
  /\ pc = "alloc"
  /\ MulInt32(width, height) < 0
  /\ pc' = "terminated"
  /\ UNCHANGED <<str, error, calls, utf16str, utf16strReordered, length, utf8str,
                 shaped, glyphCodepoints, idx, translation, bbox,
                 aboveOriginShift, width, height, image, metricsPens,
                 renderPens, output, drawVars>>

\* One iteration of the render loop.
RenderStep ==
  /\ pc = "render"
  /\ idx <= Len(glyphCodepoints)
  /\ LET slot == LoadGlyph(glyphCodepoints[idx], translation)
     IN  /\ renderPens' = Append(renderPens, translation)
         /\ image' = DrawGlyph(image, width, height, slot.bitmap,
                               DestX(slot), DestY(slot, height)).image
         /\ translation' = AdvanceRender(translation, slot)
  /\ idx' = idx + 1
  /\ UNCHANGED <<pc, str, error, calls, utf16str, utf16strReordered, length,
                 utf8str, shaped, glyphCodepoints, bbox, aboveOriginShift, width,
                 height, metricsPens, output, drawVars>>

\* PrintPGM(image, width, height), then the clean-up and return 0.
PrintImage ==
  /\ pc = "render"
  /\ idx > Len(glyphCodepoints)
  /\ output' = [printed |-> TRUE, width |-> width, height |-> height,
                rows |-> [i \in 1..height |->
                            [j \in 1..width |-> image[(i - 1) * width + (j - 1)]]]]
  /\ pc' = "done"
  /\ UNCHANGED <<str, error, calls, utf16str, utf16strReordered, length, utf8str,
                 shaped, glyphCodepoints, idx, translation, bbox,
                 aboveOriginShift, width, height, image, metricsPens,
                 renderPens, drawVars>>

Next ==
  \/ ConvertToUtf16
  \/ Reorder
  \/ ConvertToUtf8
  \/ ShapeText
  \/ MetricsStep
  \/ SizeCanvas
  \/ AllocateCanvas
  \/ AllocationThrows
  \/ RenderStep
  \/ PrintImage

Spec == Init /\ [][Next]_vars

\* ------------------------------------------- DrawGlyph on its own inputs
\* Canvases of every size up to MaxDim that already hold ink, bitmaps of
\* several shapes, and destination offsets near the canvas and at both
\* ends of FT_Int.
DrawDims == 0..MaxDim
DrawOffsets == (-MaxOff..MaxOff) \cup {INT_MIN, INT_MAX}
DrawBitmaps ==
  {[width |-> 1, rows |-> 1, buffer |-> <<255>>],
   [width |-> 2, rows |-> 1, buffer |-> <<5, 66>>],
   [width |-> 2, rows |-> 2, buffer |-> <<4, 0, 136, 16>>]}
Placed == [bm : DrawBitmaps, x : DrawOffsets, y : DrawOffsets]
Background(k) == <<0, 17, 130>>[(k % 3) + 1]

DrawOn(img, w, h, g) == DrawGlyph(img, w, h, g.bm, g.x, g.y)

DrawInit ==
  /\ MainIdle
  /\ dpc = "canvas"
  /\ dW \in DrawDims
  /\ dH \in DrawDims
  /\ dBase = [k \in 0..(dW * dH - 1) |-> Background(k)]
  /\ dA = NoPlaced /\ dB = NoPlaced /\ dImgA = NoImage /\ dWritesA = {}
  /\ dImgAA = NoImage /\ dImgAB = NoImage /\ dImgBA = NoImage

\* DrawGlyph is called once, with any bitmap at any offset.
DrawFirst ==
  /\ dpc = "canvas"
  /\ \E g \in Placed :
       /\ dA' = g
       /\ dImgA' = DrawOn(dBase, dW, dH, g).image
       /\ dWritesA' = DrawOn(dBase, dW, dH, g).writes
  /\ dpc' = "once"
  /\ UNCHANGED <<mainVars, dW, dH, dBase, dB, dImgAA, dImgAB, dImgBA>>

\* The same call is made again on the canvas the first call left.
DrawAgain ==
  /\ dpc = "once"
  /\ dImgAA' = DrawOn(dImgA, dW, dH, dA).image
  /\ dpc' = "twice"
  /\ UNCHANGED <<mainVars, dW, dH, dBase, dA, dB, dImgA, dWritesA, dImgAB, dImgBA>>

\* A second bitmap is drawn after the first, and the two in the other order
\* on the same starting canvas.
DrawSecond ==
  /\ dpc = "twice"
  /\ \E g \in Placed :
       /\ dB' = g
       /\ dImgAB' = DrawOn(dImgA, dW, dH, g).image
       /\ dImgBA' = DrawOn(DrawOn(dBase, dW, dH, g).image, dW, dH, dA).image
  /\ dpc' = "both"
  /\ UNCHANGED <<mainVars, dW, dH, dBase, dA, dImgA, dWritesA, dImgAA>>

DrawNext ==
  \/ DrawFirst
  \/ DrawAgain
  \/ DrawSecond

DrawSpec == DrawInit /\ [][DrawNext]_vars

\* ----------------------------------------------------------------- claims
\* a - b, saturated at the ends of the 32-bit range.
SatDiff(a, b) ==
  IF (a >= 0) = (b >= 0) THEN a - b
  ELSE IF a >= 0 THEN (IF a > INT_MAX + b THEN INT_MAX ELSE a - b)
  ELSE (IF a < INT_MIN + b THEN INT_MIN ELSE a - b)

\* (i, j) lies in the destination rectangle [x, x+width) x [y, y+rows) of g.
InRect(g, i, j) ==
  /\ g.x <= i /\ SatDiff(i, g.x) < g.bm.width
  /\ g.y <= j /\ SatDiff(j, g.y) < g.bm.rows

\* The two destination rectangles share no cell.
Disjoint(a, b) ==
  \/ a.bm.width = 0 \/ a.bm.rows = 0 \/ b.bm.width = 0 \/ b.bm.rows = 0
  \/ ~(SatDiff(a.x, b.x) < b.bm.width /\ SatDiff(b.x, a.x) < a.bm.width)
  \/ ~(SatDiff(a.y, b.y) < b.bm.rows /\ SatDiff(b.y, a.y) < a.bm.rows)

CanvasCells(w, h) == {c \in (0..(w - 1)) \X (0..(h - 1)) : TRUE}

\* C1: a DrawGlyph call stores only to indices of canvas cells (i, j),
\* 0 <= i < w and 0 <= j < h, that lie in the bitmap's destination
\* rectangle, never to an index outside [0, w*h), and every canvas cell
\* outside the rectangle keeps the value it had, whatever the offset.
C1_ClippingSafety ==
  dpc # "canvas" =>
    /\ dWritesA \subseteq {c[2] * dW + c[1] :
                             c \in {d \in CanvasCells(dW, dH) : InRect(dA, d[1], d[2])}}
    /\ dWritesA \subseteq 0..(dW * dH - 1)
    /\ DOMAIN dImgA = DOMAIN dBase
    /\ \A c \in CanvasCells(dW, dH) :
         ~InRect(dA, c[1], c[2]) => dImgA[c[2] * dW + c[1]] = dBase[c[2] * dW + c[1]]

\* C1's case: a bitmap placed at a negative offset, partly over the canvas.
C1_Witness ==
  /\ dpc = "once" /\ dA.x = -1 /\ dA.bm.width = 2 /\ dA.bm.rows = 2
  /\ dWritesA # {} /\ dImgA # dBase

\* C1's other case: a bitmap placed at the far end of FT_Int.
C1_FarWitness == dpc = "once" /\ dA.x = INT_MAX /\ dA.y = INT_MIN /\ dWritesA = {}

\* C7: drawing the same bitmap at the same offset a second time leaves the
\* canvas as the first call left it.
C7_Idempotent == dpc \in {"twice", "both"} => dImgAA = dImgA

\* C7's case: the first call changed the canvas, and the second call ran.
C7_Witness == dpc = "twice" /\ dImgA # dBase /\ Cardinality(dWritesA) >= 2

\* C8: two bitmaps whose destination rectangles do not overlap give the
\* same canvas in either drawing order.
C8_OrderIndependent ==
  (dpc = "both" /\ Disjoint(dA, dB)) => dImgAB = dImgBA

\* C8's case: two disjoint rectangles, each of which changed the canvas.
C8_Witness ==
  /\ dpc = "both" /\ Disjoint(dA, dB)
  /\ dImgA # dBase /\ dImgAB # dImgA
  /\ DrawOn(dBase, dW, dH, dB).image # dBase

\* ---- the pipeline
Sized == pc \in {"alloc", "render", "done", "terminated"}

\* C2 (as claimed): an empty shaped sequence is reported before the canvas
\* is sized; main never computes width and height from the sentinel box,
\* never allocates and never prints for it.
C2_EmptyRunReported ==
  (shaped /\ glyphCodepoints = <<>>) => (~Sized /\ ~output.printed)

\* C5 (as claimed): every destination handed to the converter or the bidi
\* engine is at least as large as what the call produces.
C5_NoTruncation ==
  \A k \in DOMAIN calls : calls[k].required <= calls[k].capacity

\* C6 (as claimed): once an ICU call has reported a failure, main shapes
\* nothing, sizes and allocates no canvas and prints no image.
C6_FailureIsFatal ==
  U_FAILURE(error) => (~shaped /\ ~Sized /\ ~output.printed)

\* The slot the metrics pass loaded for glyph k, and the render pass's.
MetricsSlot(k) == LoadGlyph(glyphCodepoints[k], metricsPens[k])
RenderSlot(k) == LoadGlyph(glyphCodepoints[k], renderPens[k])

SetMin(S) == CHOOSE v \in S : \A u \in S : v <= u
SetMax(S) == CHOOSE v \in S : \A u \in S : v >= u

\* C3: once the metrics pass has processed a glyph, bbox is well formed and
\* its bounds are the minima and maxima of the boxes reported for the
\* glyphs processed so far at their pens; width and height, once computed
\* for a non-empty sequence, are not negative.
C3_BBoxMonotone ==
  LET n == Len(metricsPens)
      boxes == {GlyphCBox(MetricsSlot(k)) : k \in 1..n}
  IN  n >= 1 =>
        /\ bbox.xMin <= bbox.xMax /\ bbox.yMin <= bbox.yMax
        /\ bbox.xMin = SetMin({b.xMin : b \in boxes})
        /\ bbox.yMin = SetMin({b.yMin : b \in boxes})
        /\ bbox.xMax = SetMax({b.xMax : b \in boxes})
        /\ bbox.yMax = SetMax({b.yMax : b \in boxes})
        /\ (Sized => (width >= 0 /\ height >= 0 /\ n = Len(glyphCodepoints)))

\* C3's case: three glyphs measured, the box wider than any one of them and
\* reaching below the baseline.
C3_Witness ==
  /\ pc = "alloc" /\ Len(glyphCodepoints) = 3
  /\ bbox.yMin < 0 /\ bbox.xMin < 0 /\ width >= 4

\* C4 (as claimed): the render pass sets for glyph k the translation the
\* metrics pass set for glyph k.
C4_SamePens ==
  \A k \in 1..Len(renderPens) : renderPens[k] = metricsPens[k]

\* C4 (amended): the render pass visits the glyphs in the metrics pass's
\* order, and the translation it sets for glyph k is the one the metrics
\* pass set for glyph k moved up by aboveOriginShift: same x, y larger by
\* aboveOriginShift.
C4_PensShifted ==
  /\ Len(renderPens) <= Len(metricsPens)
  /\ \A k \in 1..Len(renderPens) :
       /\ renderPens[k].x = metricsPens[k].x
       /\ renderPens[k].y = metricsPens[k].y + aboveOriginShift
  /\ (pc = "done" => /\ Len(renderPens) = Len(glyphCodepoints)
                     /\ Len(metricsPens) = Len(glyphCodepoints))

\* C4's case: a finished run of three glyphs with a non-zero shift and a pen
\* that moved.
C4_Witness ==
  /\ pc = "done" /\ Len(renderPens) = 3 /\ aboveOriginShift # 0
  /\ renderPens[3].x > renderPens[2].x /\ renderPens[2].x > 0

\* C9: in the render pass every glyph's destination row, height minus its
\* top bearing, is at least 0.
C9_NoTopClipping ==
  \A k \in 1..Len(renderPens) : DestY(RenderSlot(k), height) >= 0

\* C9's case: a rendered glyph whose bitmap starts in the canvas's first
\* row, after a shift by a descender that is no whole number of pixels.
C9_Witness ==
  /\ pc = "done" /\ Len(renderPens) >= 2
  /\ aboveOriginShift % SubpixelScale # 0
  /\ \E k \in 1..Len(renderPens) :
       DestY(RenderSlot(k), height) = 0 /\ RenderSlot(k).bitmap.rows > 0

\* Glyph k's bitmap covers canvas cell (i, j).
Covers(k, i, j) ==
  LET s == RenderSlot(k)
  IN  /\ i >= DestX(s) /\ i < DestX(s) + s.bitmap.width
      /\ j >= DestY(s, height) /\ j < DestY(s, height) + s.bitmap.rows

\* The coverage glyph k's bitmap holds for canvas cell (i, j).
Source(k, i, j) ==
  LET s == RenderSlot(k)
  IN  s.bitmap.buffer[(j - DestY(s, height)) * s.bitmap.width + (i - DestX(s)) + 1]

RECURSIVE OrOfGlyphs(_, _, _)
\* The bitwise OR of the first n glyphs' coverage at cell (i, j).
OrOfGlyphs(n, i, j) ==
  IF n = 0 THEN 0
  ELSE LET rest == OrOfGlyphs(n - 1, i, j)
       IN  IF Covers(n, i, j) THEN BitOr(rest, Source(n, i, j)) ELSE rest

\* C10: the canvas has width*height cells, all 0 when allocated, and after
\* any number of render iterations every cell holds the OR of the bitmaps
\* of the glyphs drawn so far that cover it (0 when none does); what is
\* printed is that canvas.
C10_CanvasContent ==
  pc \in {"render", "done"} =>
    /\ DOMAIN image = 0..(width * height - 1)
    /\ \A c \in CanvasCells(width, height) :
         image[c[2] * width + c[1]] = OrOfGlyphs(Len(renderPens), c[1], c[2])
    /\ (pc = "done" =>
          /\ Len(renderPens) = Len(glyphCodepoints)
          /\ output.printed /\ output.width = width /\ output.height = height
          /\ \A c \in CanvasCells(width, height) :
               output.rows[c[2] + 1][c[1] + 1] = OrOfGlyphs(Len(renderPens), c[1], c[2]))

\* C10's case: a printed canvas with a cell that two glyphs cover with
\* different coverage, holding the OR of both.
C10_Witness ==
  /\ pc = "done"
  /\ \E c \in CanvasCells(width, height) :
       \E k1, k2 \in 1..Len(renderPens) :
         /\ k1 < k2 /\ Covers(k1, c[1], c[2]) /\ Covers(k2, c[1], c[2])
         /\ Source(k1, c[1], c[2]) # 0
         /\ Source(k2, c[1], c[2]) # 0
         /\ image[c[2] * width + c[1]] # Source(k1, c[1], c[2])
         /\ image[c[2] * width + c[1]] # Source(k2, c[1], c[2])
====
